---- MODULE Spec2Model ----
(***************************************************************************)
(* Pairs-trading strategy: the position state machine of src/strategy.py   *)
(* and the spread / z-score pipeline of src/analytics.py.                  *)
(*                                                                         *)
(* Numbers of the strategy are fixed-point integers (the scenario and the  *)
(* default thresholds are written in tenths: 20 is 2.0).  A pandas value   *)
(* is a record: def = FALSE is NaN, def = TRUE carries the number.         *)
(* A pandas Series of length T is a function on 0..T-1, as .iloc sees it.  *)
(***************************************************************************)
EXTENDS Integers, Sequences, FiniteSets

VARIABLES
    z_scores,          \* strategy input: the z-score series
    entry_threshold,   \* strategy parameter
    exit_threshold,    \* strategy parameter
    stop_loss,         \* strategy parameter
    positions,         \* the position series being built
    t,                 \* loop index of strategy's for loop
    pc,                \* "loop" while strategy runs, "returned" after return
    df_x,              \* analytics input: price column x
    df_y,              \* analytics input: price column y
    window,            \* analytics input: rolling window
    call,              \* "none", or the pipeline that was called
    result             \* what the pipeline call produced

vars == <<z_scores, entry_threshold, exit_threshold, stop_loss, positions, t, pc,
          df_x, df_y, window, call, result>>

strategyVars == <<z_scores, entry_threshold, exit_threshold, stop_loss, positions, t, pc>>
analyticsVars == <<df_x, df_y, window, call, result>>

\* ---------------------------------------------------------------- bounds
MaxT == 3          \* longest z-score series explored with free thresholds
MaxRun == 4        \* longest z-score series explored with the default thresholds
MaxThr == 2        \* thresholds range over 0..MaxThr
MaxLen == 5        \* longest price series explored
MaxWindow == 2     \* windows range over 1..MaxWindow

\* ------------------------------------------------- strategy.py: defaults
\* Defaults of strategy's signature, in tenths.
entry_threshold_default == 20
exit_threshold_default == 5
stop_loss_default == 40

\* ------------------------------------------------------- float semantics
NaN == [def |-> FALSE, val |-> 0]
Num(v) == [def |-> TRUE, val |-> v]

\* z > c : False when z is NaN
Gt(z, c) == z.def /\ z.val > c

\* z < c : False when z is NaN
Lt(z, c) == z.def /\ z.val < c

\* Faulty variant of Abs: a missing value read as 0 (z_scores.fillna(0)).
Abs_NaNAsZero(z) == IF z.def THEN Num(IF z.val < 0 THEN -z.val ELSE z.val) ELSE Num(0)

\* abs(z) : NaN stays NaN
Abs(z) == IF z.def THEN Num(IF z.val < 0 THEN -z.val ELSE z.val) ELSE NaN

\* series.iloc[i] on a series of length n: a negative i counts from the end
Iloc(s, n, i) == IF i < 0 THEN s[n + i] ELSE s[i]

\* ------------------------------------------ analytics.py: exact numbers
\* Prices, betas and spreads are exact rationals num/den (den > 0, lowest
\* terms); def = FALSE is NaN and den = 0 is an infinity (x / 0, x # 0).
RECURSIVE GCD(_, _)
GCD(a, b) == IF b = 0 THEN a ELSE GCD(b, a % b)

RNaN == [def |-> FALSE, num |-> 0, den |-> 1]

R(n, d) ==
    IF d = 0
    THEN IF n = 0 THEN RNaN ELSE [def |-> TRUE, num |-> IF n < 0 THEN -1 ELSE 1, den |-> 0]
    ELSE LET sn == IF d < 0 THEN -n ELSE n
             sd == IF d < 0 THEN -d ELSE d
             g == GCD(IF sn < 0 THEN -sn ELSE sn, sd)
         IN  [def |-> TRUE, num |-> sn \div g, den |-> sd \div g]

RAdd(a, b) == IF a.def /\ b.def THEN R(a.num * b.den + b.num * a.den, a.den * b.den) ELSE RNaN
RSub(a, b) == IF a.def /\ b.def THEN R(a.num * b.den - b.num * a.den, a.den * b.den) ELSE RNaN
RMul(a, b) == IF a.def /\ b.def THEN R(a.num * b.num, a.den * b.den) ELSE RNaN
RDiv(a, b) == IF a.def /\ b.def THEN R(a.num * b.den, a.den * b.num) ELSE RNaN

RECURSIVE RSum(_, _, _)
RSum(f, lo, hi) == IF lo > hi THEN R(0, 1) ELSE RAdd(f[lo], RSum(f, lo + 1, hi))

Products(f, g) == [i \in DOMAIN f |-> RMul(f[i], g[i])]

\* ------------------------------------------- analytics.py: rolling windows
\* series.rolling(window): the window ending at i counts only when it holds
\* `window` observations, none of them NaN (min_periods defaults to window).
FullWindow(s, w, i) ==
    /\ i - w + 1 >= 0
    /\ \A k \in (i - w + 1)..i : s[k].def

WindowStart(w, i) == IF i - w + 1 >= 0 THEN i - w + 1 ELSE 0
WindowCount(w, i) == i - WindowStart(w, i) + 1

\* series.rolling(window).mean()
RollingMean(s, w) ==
    [i \in DOMAIN s |->
        IF FullWindow(s, w, i)
        THEN RDiv(RSum(s, WindowStart(w, i), i), R(WindowCount(w, i), 1))
        ELSE RNaN]

\* x.rolling(window).cov(y), ddof = 1: NaN on fewer than two observations
RollingCov(x, y, w) ==
    [i \in DOMAIN x |->
        LET lo == WindowStart(w, i)
            n == WindowCount(w, i)
        IN  IF FullWindow(x, w, i) /\ FullWindow(y, w, i) /\ n >= 2
            THEN RDiv(RSub(RSum(Products(x, y), lo, i),
                           RDiv(RMul(RSum(x, lo, i), RSum(y, lo, i)), R(n, 1))),
                      R(n - 1, 1))
            ELSE RNaN]

\* series.rolling(window).var(), ddof = 1; .std() is its square root
RollingVar(s, w) == RollingCov(s, s, w)

\* (series - mean) / std as a signed square: z = sgn * sqrt(sq).  A zero std
\* under a zero deviation is 0 / 0 = NaN.
ZValue(dev, var) ==
    IF ~dev.def \/ ~var.def THEN [def |-> FALSE, sgn |-> 0, sq |-> RNaN]
    ELSE IF var.num = 0 /\ dev.num = 0 THEN [def |-> FALSE, sgn |-> 0, sq |-> RNaN]
    ELSE [def |-> TRUE,
          sgn |-> IF dev.num < 0 THEN -1 ELSE IF dev.num > 0 THEN 1 ELSE 0,
          sq |-> RDiv(RMul(dev, dev), var)]

\* ------------------------------------------------ analytics.py: functions
Constant(s) == \A i \in DOMAIN s : \A j \in DOMAIN s : s[i] = s[j]
Count(s) == Cardinality(DOMAIN s)

\* compute_static_beta: the OLS slope of x on y with a constant.  On a
\* constant y add_constant adds no column and params[1] does not exist.
static_beta_raises(x, y) == Constant(y)

compute_static_beta(x, y) ==
    IF static_beta_raises(x, y) THEN RNaN
    ELSE LET n == Count(x)
             hi == n - 1
         IN  RDiv(RSub(RMul(R(n, 1), RSum(Products(x, y), 0, hi)),
                       RMul(RSum(x, 0, hi), RSum(y, 0, hi))),
                  RSub(RMul(R(n, 1), RSum(Products(y, y), 0, hi)),
                       RMul(RSum(y, 0, hi), RSum(y, 0, hi))))

\* compute_dynamic_beta: rolling cov / rolling var
compute_dynamic_beta(x, y, w) ==
    LET cov == RollingCov(x, y, w)
        var == RollingVar(y, w)
    IN  [i \in DOMAIN x |-> RDiv(cov[i], var[i])]

\* compute_spread: x - beta * y, beta a series
compute_spread(x, y, beta) == [i \in DOMAIN x |-> RSub(x[i], RMul(beta[i], y[i]))]

\* a scalar beta broadcast over the index of x
Broadcast(b, x) == [i \in DOMAIN x |-> b]

\* Faulty variant of compute_zscore: the missing values of the series are filled
\* with 0 before the rolling statistics (series.fillna(0)).
compute_zscore_FillNa(series, w) ==
    LET filled == [i \in DOMAIN series |-> IF series[i].def THEN series[i] ELSE R(0, 1)]
        mean == RollingMean(filled, w)
        var == RollingVar(filled, w)
    IN  [i \in DOMAIN series |-> ZValue(RSub(filled[i], mean[i]), var[i])]

\* compute_zscore: (series - rolling mean) / rolling std
compute_zscore(series, w) ==
    LET mean == RollingMean(series, w)
        var == RollingVar(series, w)
    IN  [i \in DOMAIN series |-> ZValue(RSub(series[i], mean[i]), var[i])]

\* series.dropna(): the number of values left
Valid(series) == Cardinality({i \in DOMAIN series : series[i].def})

\* adfuller's own precondition with its defaults (regression "c"):
\* nobs // 2 - 2 >= 0
AdfMinObs == 4

\* adf_test: adfuller on series.dropna().  The test is an external
\* primitive: it raises on too few observations, may raise on a degenerate
\* sample, and otherwise returns a p-value, which nothing here reads.
adf_test(series) ==
    IF Valid(series) < AdfMinObs THEN {"raise"} ELSE {"raise", "p_value"}

NoResult == [kind |-> "none"]
Raised == [kind |-> "raise"]
Bundle(beta, spread, zscore, p) ==
    [kind |-> "bundle", beta |-> beta, spread |-> spread, zscore |-> zscore, adf_p |-> p]

\* ------------------------------------------------------ strategy: a step
\* Faulty variant of NextPosition: entry comparisons not strict.
NextPosition_EntryNotStrict(prev, z, entry, exit, stop) ==
    IF prev = 0
    THEN IF z.def /\ z.val >= entry THEN -1
         ELSE IF z.def /\ z.val <= -entry THEN 1
         ELSE prev
    ELSE IF Lt(Abs(z), exit) THEN 0
         ELSE IF Gt(Abs(z), stop) THEN 0
         ELSE prev

\* Faulty variant of NextPosition: the stop-loss exit is missing.
NextPosition_NoStopLoss(prev, z, entry, exit, stop) ==
    IF prev = 0
    THEN IF Gt(z, entry) THEN -1
         ELSE IF Lt(z, -entry) THEN 1
         ELSE prev
    ELSE IF Lt(Abs(z), exit) THEN 0
         ELSE prev

\* Faulty variant of NextPosition: the mean-reversion exit compares with the entry threshold.
NextPosition_ExitAtEntry(prev, z, entry, exit, stop) ==
    IF prev = 0
    THEN IF Gt(z, entry) THEN -1
         ELSE IF Lt(z, -entry) THEN 1
         ELSE prev
    ELSE IF Lt(Abs(z), entry) THEN 0
         ELSE IF Gt(Abs(z), stop) THEN 0
         ELSE prev

\* Faulty variant of NextPosition: the entry signs are exchanged.
NextPosition_SignsSwapped(prev, z, entry, exit, stop) ==
    IF prev = 0
    THEN IF Gt(z, entry) THEN 1
         ELSE IF Lt(z, -entry) THEN -1
         ELSE prev
    ELSE IF Lt(Abs(z), exit) THEN 0
         ELSE IF Gt(Abs(z), stop) THEN 0
         ELSE prev

\* Faulty variant of NextPosition: the exit checks come first and the entry check is a plain `if`
\* on the updated position, so an exit and an entry can share a step.
NextPosition_ExitThenEntry(prev, z, entry, exit, stop) ==
    LET afterExit == IF prev # 0 /\ (Lt(Abs(z), exit) \/ Gt(Abs(z), stop)) THEN 0 ELSE prev
    IN  IF afterExit = 0
        THEN IF Gt(z, entry) THEN -1
             ELSE IF Lt(z, -entry) THEN 1
             ELSE afterExit
        ELSE afterExit

\* Faulty variant of NextPosition: no entry while |z| is beyond the stop-loss level.
NextPosition_NoEntryBeyondStop(prev, z, entry, exit, stop) ==
    IF prev = 0
    THEN IF Gt(z, entry) /\ ~Gt(Abs(z), stop) THEN -1
         ELSE IF Lt(z, -entry) /\ ~Gt(Abs(z), stop) THEN 1
         ELSE prev
    ELSE IF Lt(Abs(z), exit) THEN 0
         ELSE IF Gt(Abs(z), stop) THEN 0
         ELSE prev

\* The body of the for loop: positions.iloc[t] from positions.iloc[t-1] and z.
NextPosition(prev, z, entry, exit, stop) ==
    IF prev = 0
    THEN IF Gt(z, entry) THEN -1
         ELSE IF Lt(z, -entry) THEN 1
         ELSE prev
    ELSE IF Lt(Abs(z), exit) THEN 0
         ELSE IF Gt(Abs(z), stop) THEN 0
         ELSE prev

\* Faulty variant of LoopStart: the loop starts at index 0.
LoopStart_Zero == 1 - 1

\* range(1, T) starts at 1
LoopStart == 1

\* T = len(z_scores)
T == Cardinality(DOMAIN z_scores)

\* pd.Series(0, index=z_scores.index)
InitPositions(zs) == [i \in DOMAIN zs |-> 0]

\* ------------------------------------------------------ strategy: inputs
Thresholds == 0..MaxThr
ZValues == {NaN} \cup {Num(v) : v \in -(MaxThr + 1)..(MaxThr + 1)}
Series(n, S) == [0..(n - 1) -> S]

\* The spec's scenario, in tenths: [_, 0.1, 2.5, 1.0, 0.3, 5.0].
ScenarioTail == <<1, 25, 10, 3, 50>>
ScenarioZ0 == {NaN} \cup {Num(v) : v \in -50..50}
ScenarioSeries(z0) ==
    [i \in 0..Len(ScenarioTail) |-> IF i = 0 THEN z0 ELSE Num(ScenarioTail[i])]

\* Levels around the default entry and stop-loss thresholds, both signs.
Magnitudes ==
    {entry_threshold_default, stop_loss_default} \cup {ScenarioTail[i] : i \in DOMAIN ScenarioTail}
DefaultZValues == {NaN} \cup {Num(v) : v \in Magnitudes} \cup {Num(-v) : v \in Magnitudes}

AnalyticsIdle ==
    /\ df_x = <<>>
    /\ df_y = <<>>
    /\ window = 1
    /\ call = "none"
    /\ result = NoResult

\* strategy(z_scores, betas, spreads, entry_threshold, exit_threshold, stop_loss)
\* up to the for loop.
StrategyCalled(zs, entry, exit, stop) ==
    /\ z_scores = zs
    /\ entry_threshold = entry
    /\ exit_threshold = exit
    /\ stop_loss = stop
    /\ positions = InitPositions(zs)
    /\ t = LoopStart
    /\ pc = "loop"

Init ==
    /\ \E n \in 0..MaxT : \E zs \in Series(n, ZValues) :
       \E entry \in Thresholds, exit \in Thresholds, stop \in Thresholds :
           StrategyCalled(zs, entry, exit, stop)
    /\ AnalyticsIdle

InitScenario ==
    /\ \E z0 \in ScenarioZ0 :
           StrategyCalled(ScenarioSeries(z0), entry_threshold_default,
                          exit_threshold_default, stop_loss_default)
    /\ AnalyticsIdle

InitDefault ==
    /\ \E n \in 0..MaxRun : \E zs \in Series(n, DefaultZValues) :
           StrategyCalled(zs, entry_threshold_default, exit_threshold_default,
                          stop_loss_default)
    /\ AnalyticsIdle

\* One iteration of `for t in range(1, T)`.
Step ==
    /\ pc = "loop"
    /\ t < T
    /\ positions' = [positions EXCEPT ![t] =
           NextPosition(Iloc(positions, T, t - 1), Iloc(z_scores, T, t),
                        entry_threshold, exit_threshold, stop_loss)]
    /\ t' = t + 1
    /\ UNCHANGED <<z_scores, entry_threshold, exit_threshold, stop_loss, pc>>
    /\ UNCHANGED analyticsVars

\* The loop is over: return positions.
Return ==
    /\ pc = "loop"
    /\ t >= T
    /\ pc' = "returned"
    /\ UNCHANGED <<z_scores, entry_threshold, exit_threshold, stop_loss, positions, t>>
    /\ UNCHANGED analyticsVars

Next == Step \/ Return

\* strategy called with any thresholds in range
Spec == Init /\ [][Next]_vars

\* strategy called on the spec's scenario
SpecScenario == InitScenario /\ [][Next]_vars

\* strategy called with its default thresholds
SpecDefault == InitDefault /\ [][Next]_vars

\* --------------------------------------------------- analytics: pipelines
\* Two price levels: every column is a series over them.
PriceLevels == {1, 2}
Prices == {R(v, 1) : v \in PriceLevels}

StrategyIdle ==
    /\ z_scores = <<>>
    /\ entry_threshold = entry_threshold_default
    /\ exit_threshold = exit_threshold_default
    /\ stop_loss = stop_loss_default
    /\ positions = <<>>
    /\ t = LoopStart
    /\ pc = "idle"

\* A data frame with two aligned price columns, and a window.
InitAnalytics ==
    /\ \E n \in 1..MaxLen : \E x \in Series(n, Prices), y \in Series(n, Prices) :
           df_x = x /\ df_y = y
    /\ window \in 1..MaxWindow
    /\ call = "none"
    /\ result = NoResult
    /\ StrategyIdle

\* analyze_pair_static(df, x, y, window)
analyze_pair_static ==
    /\ call = "none"
    /\ call' = "static"
    /\ LET beta == compute_static_beta(df_x, df_y)
       IN  IF static_beta_raises(df_x, df_y)
           THEN result' = Raised
           ELSE LET spread == compute_spread(df_x, df_y, Broadcast(beta, df_x))
                    zscore == compute_zscore(spread, window)
                IN  \E p \in adf_test(spread) :
                        result' = IF p = "raise" THEN Raised
                                  ELSE Bundle(beta, spread, zscore, p)
    /\ UNCHANGED <<df_x, df_y, window>>
    /\ UNCHANGED strategyVars

\* analyze_pair_dynamic(df, x, y, window)
analyze_pair_dynamic ==
    /\ call = "none"
    /\ call' = "dynamic"
    /\ LET beta_series == compute_dynamic_beta(df_x, df_y, window)
           spread == compute_spread(df_x, df_y, beta_series)
           zscore == compute_zscore(spread, window)
       IN  \E p \in adf_test(spread) :
               result' = IF p = "raise" THEN Raised
                         ELSE Bundle(beta_series, spread, zscore, p)
    /\ UNCHANGED <<df_x, df_y, window>>
    /\ UNCHANGED strategyVars

NextAnalytics == analyze_pair_static \/ analyze_pair_dynamic

SpecAnalytics == InitAnalytics /\ [][NextAnalytics]_vars

\* ------------------------------------------------------ analytics: claims
IsBundle == result.kind = "bundle"
N == Count(df_x)

\* The window of s ending at i is full and constant: its std is zero.
ZeroStdAt(s, w, i) ==
    /\ i - w + 1 >= 0
    /\ \A k \in (i - w + 1)..i : s[k].def /\ s[k] = s[i]

\* y takes two values in the window ending at i.
VariesAt(y, w, i) ==
    /\ i - w + 1 >= 0
    /\ \E k \in (i - w + 1)..i : y[k] # y[i]

UndefinedBefore(z, n) == \A i \in DOMAIN z : i < n => ~z[i].def

\* C8 (as amended): for a window w >= 2, the z-score of analyze_pair_static
\* is undefined at its first w-1 values and defined at the w-th unless the
\* first w spread values are all equal; the z-score of analyze_pair_dynamic
\* is undefined at its first 2w-2 values (the w-th among them) and defined
\* at the (2w-1)-th when y varies in each of the windows ending at the
\* w-th .. (2w-1)-th values and the spread is not constant over them.  With
\* w = 1 every z-score is undefined.
C8_Warmup ==
    IsBundle =>
        LET z == result.zscore
            s == result.spread
            w == window
        IN  /\ (call = "static" /\ w >= 2) =>
                /\ UndefinedBefore(z, w - 1)
                /\ (N >= w /\ ~ZeroStdAt(s, w, w - 1)) => z[w - 1].def
            /\ (call = "dynamic" /\ w >= 2) =>
                /\ UndefinedBefore(z, 2 * w - 2)
                /\ ( /\ N >= 2 * w - 1
                     /\ \A k \in (w - 1)..(2 * w - 2) : VariesAt(df_y, w, k)
                     /\ ~ZeroStdAt(s, w, 2 * w - 2) )
                   => z[2 * w - 2].def
            /\ w = 1 => UndefinedBefore(z, N)

\* C8 witness: a dynamic bundle whose spread is defined at the w-th value,
\* whose z-score is undefined there and defined at the (2w-1)-th value.
C8_Witness ==
    /\ IsBundle
    /\ call = "dynamic"
    /\ window >= 2
    /\ N >= 2 * window - 1
    /\ result.spread[window - 1].def
    /\ ~result.zscore[window - 1].def
    /\ result.zscore[2 * window - 2].def

\* C8 (original): in the bundle of either pipeline the first w-1 z-scores
\* are undefined and the w-th is defined, unless the rolling std there is
\* zero.
C8_WarmupAsStated ==
    IsBundle =>
        /\ UndefinedBefore(result.zscore, window - 1)
        /\ (N >= window /\ ~ZeroStdAt(result.spread, window, window - 1))
           => result.zscore[window - 1].def

\* No division of a nonzero number by zero happens in a bundle.
NoInfinity ==
    IsBundle =>
        /\ \A i \in DOMAIN result.spread : result.spread[i].def => result.spread[i].den # 0
        /\ \A i \in DOMAIN result.zscore : result.zscore[i].def => result.zscore[i].sq.den # 0

\* ------------------------------------------------------- strategy: claims
\* Indices the loop has written so far.
Written == 1..(t - 1)
AbsVal(v) == IF v < 0 THEN -v ELSE v
Ordered == exit_threshold < entry_threshold /\ entry_threshold < stop_loss
InBand(z) == z.def /\ exit_threshold <= AbsVal(z.val) /\ AbsVal(z.val) <= stop_loss

\* C1: from FLAT with a defined z, the next position is SHORT (-1) when
\* z > entry_threshold, else LONG (+1) when z < -entry_threshold, and FLAT
\* otherwise; both comparisons are strict, so z = entry_threshold and
\* z = -entry_threshold leave the machine FLAT.
C1_EntryRule ==
    \A i \in Written :
        (positions[i - 1] = 0 /\ z_scores[i].def) =>
            LET z == z_scores[i].val
            IN  /\ positions[i] = IF z > entry_threshold THEN -1
                                  ELSE IF z < -entry_threshold THEN 1
                                  ELSE 0
                /\ (z = entry_threshold \/ z = -entry_threshold) =>
                       (positions[i] = 0 \/ entry_threshold < 0)

\* C1 witness: a run that stayed FLAT at z = entry_threshold and went SHORT
\* one step later at a larger z.
C1_Witness ==
    /\ pc = "returned"
    /\ entry_threshold > 0
    /\ \E i \in Written : \E j \in Written :
        /\ positions[i - 1] = 0 /\ z_scores[i] = Num(entry_threshold) /\ positions[i] = 0
        /\ positions[j - 1] = 0 /\ Gt(z_scores[j], entry_threshold) /\ positions[j] = -1

\* C2: in a trade with a defined z, the next position is FLAT when
\* |z| < exit_threshold, else FLAT when |z| > stop_loss, else the previous
\* position; strict comparisons, the sign of z ignored, for every threshold
\* configuration.
C2_ExitRule ==
    \A i \in Written :
        (positions[i - 1] # 0 /\ z_scores[i].def) =>
            LET a == AbsVal(z_scores[i].val)
            IN  positions[i] = IF a < exit_threshold THEN 0
                               ELSE IF a > stop_loss THEN 0
                               ELSE positions[i - 1]

\* C2 witness: a SHORT position held at a negative z with |z| = stop_loss.
C2_Witness ==
    /\ pc = "returned"
    /\ \E i \in Written :
        /\ positions[i - 1] = -1
        /\ z_scores[i] = Num(-stop_loss)
        /\ stop_loss > 0
        /\ positions[i] = -1

C4_UndefinedCarries ==
    \A i \in Written : ~z_scores[i].def => positions[i] = positions[i - 1]

\* C4 witness: an open position carried over an undefined z-score while
\* exit_threshold is positive.
C4_Witness ==
    /\ pc = "returned"
    /\ exit_threshold > 0
    /\ \E i \in Written :
        ~z_scores[i].def /\ positions[i - 1] # 0 /\ positions[i] = positions[i - 1]

ScenarioRun ==
    /\ pc = "returned"
    /\ entry_threshold = entry_threshold_default
    /\ exit_threshold = exit_threshold_default
    /\ stop_loss = stop_loss_default
    /\ DOMAIN z_scores = 0..Len(ScenarioTail)
    /\ \A i \in 1..Len(ScenarioTail) : z_scores[i] = Num(ScenarioTail[i])

AsSeries(seq) == [i \in 0..(Len(seq) - 1) |-> seq[i + 1]]

\* C5 (as amended): thresholds 2, 0.5, 4 and z-scores
\* [_, 0.1, 2.5, 1.0, 0.3, 5.0] give positions [0, 0, -1, -1, 0, -1]: the
\* machine is FLAT when it reads 5.0 > 2 and opens a SHORT position again.
C5_ScenarioReenters ==
    ScenarioRun => positions = AsSeries(<<0, 0, -1, -1, 0, -1>>)

\* C5 witness: the scenario has run to its end.
C5_Witness ==
    ScenarioRun /\ positions[4] = 0 /\ Gt(z_scores[5], entry_threshold)

\* C5 (original): the scenario gives positions [0, 0, -1, -1, 0, 0].
C5_ScenarioAsStated ==
    ScenarioRun => positions = AsSeries(<<0, 0, -1, -1, 0, 0>>)

\* C6: when exit < entry < stop is violated the configuration is rejected
\* before any element of the series is processed, and no position series
\* is returned.
C6_MisconfiguredRejected ==
    ~Ordered => (t = LoopStart /\ pc # "returned")

\* C7: the position series has the index of the z-score series, every value
\* is -1, 0 or +1, the value at index 0 is FLAT whatever z_scores[0] is, and
\* a returned series has had every index 1..T-1 processed.
C7_Shape ==
    /\ DOMAIN positions = DOMAIN z_scores
    /\ \A i \in DOMAIN positions : positions[i] \in {-1, 0, 1}
    /\ T >= 1 => positions[0] = 0
    /\ (pc = "returned" /\ T >= 1) => t = T

\* C7 witness: a returned run whose z_scores[0] is beyond the entry
\* threshold and whose later indices were processed.
C7_Witness ==
    /\ pc = "returned"
    /\ T >= 2
    /\ Gt(z_scores[0], entry_threshold)
    /\ positions[0] = 0
    /\ positions[T - 1] # 0

\* C9: no step goes from LONG to SHORT or from SHORT to LONG; every change
\* of position has FLAT on one side.
C9_NoDirectFlip ==
    \A i \in Written :
        /\ ~(positions[i - 1] = 1 /\ positions[i] = -1)
        /\ ~(positions[i - 1] = -1 /\ positions[i] = 1)
        /\ positions[i - 1] # positions[i] => (positions[i - 1] = 0 \/ positions[i] = 0)

\* C9 witness: a LONG position closed by the stop-loss at a z that is also
\* beyond the entry threshold on the SHORT side.
C9_Witness ==
    /\ pc = "returned"
    /\ \E i \in Written :
        /\ positions[i - 1] = 1
        /\ Gt(z_scores[i], stop_loss)
        /\ Gt(z_scores[i], entry_threshold)
        /\ positions[i] = 0

\* Step i closed a position by the stop-loss rule.
StopLossExitAt(i) ==
    /\ positions[i - 1] # 0
    /\ z_scores[i].def
    /\ ~(AbsVal(z_scores[i].val) < exit_threshold)
    /\ AbsVal(z_scores[i].val) > stop_loss
    /\ positions[i] = 0

\* C10: after a stop-loss exit at step i, a z at step i+1 with
\* |z| > entry_threshold opens a new position (SHORT for z > entry, LONG for
\* z < -entry); and with exit < entry < stop and z constant above stop_loss
\* from index 1 on, the positions alternate -1, 0, -1, 0, ...
C10_ExitsNotSticky ==
    /\ \A i \in Written :
           ( /\ i + 1 \in Written
             /\ StopLossExitAt(i)
             /\ z_scores[i + 1].def
             /\ AbsVal(z_scores[i + 1].val) > entry_threshold )
           => positions[i + 1] = IF z_scores[i + 1].val > entry_threshold THEN -1 ELSE 1
    /\ ( /\ Ordered
         /\ T >= 2
         /\ Gt(z_scores[1], stop_loss)
         /\ \A i \in 1..(T - 1) : z_scores[i] = z_scores[1] )
       => \A i \in Written : positions[i] = IF i % 2 = 1 THEN -1 ELSE 0

\* C10 witness: a stop-loss exit followed at once by a new LONG position.
C10_Witness ==
    /\ pc = "returned"
    /\ \E i \in Written :
        /\ i + 1 \in Written
        /\ StopLossExitAt(i)
        /\ positions[i - 1] = -1
        /\ Lt(z_scores[i + 1], -stop_loss)
        /\ positions[i + 1] = 1

====
